---- MODULE Spec2Model ----
(***************************************************************************)
(* The distributed open-addressed k-mer hash table of hw3.                 *)
(*                                                                         *)
(* src/unnamed/part_000 is the UPC++ table whose slots are sharded over    *)
(* the ranks and claimed with a remote compare_exchange; src/hash_map.hpp  *)
(* is the variant whose request_slot is an rget followed by an rput.       *)
(*                                                                         *)
(* Every rank (participant) is a sequential process.  A step of the model  *)
(* is one awaited remote operation of one rank (compare_exchange, rget,    *)
(* rput, broadcast, the local fill_n) together with the local code up to   *)
(* the next one.                                                           *)
(***************************************************************************)
EXTENDS Integers, Sequences, FiniteSets, TLC

\* ------------------------------------------------------------- bounds
MaxSize == 3       \* capacities 1 .. MaxSize are constructed
MaxProcs == 2      \* 1 .. MaxProcs ranks
WordBits == 4      \* uint64_t / size_t scaled to WordBits bits
NumKeys == 3       \* distinct k-mers
NumExts == 1       \* distinct payloads (fb_ext) per k-mer
MaxOps == 3        \* insert / find calls issued in one run
NumCallers == 2    \* concurrent callers of one table of hash_map.hpp

Word == 2 ^ WordBits

Keys == 1 .. NumKeys
Exts == 1 .. NumExts

\* kmer_pair: the key (kmer) and its payload.
kmer_pair == [kmer : Keys, ext : Exts]

\* The content of storage that new_array has allocated and nobody has
\* written.  Reading it yields an indeterminate kmer_pair (ReadValues).
Unwritten == [kmer |-> 0, ext |-> 0]

\* Values kmer.hash() takes in the model: a small one and the largest word,
\* for which hash + probe wraps.
HashValues == {1, Word - 1}

\* Values an int of freshly allocated, not yet filled storage can hold
\* (only "!= 0" is ever tested, so 1 stands for every nonzero value).
IndeterminateInts == {0, 1}

VARIABLES
    my_size,      \* HashMap::my_size, the capacity (the same at every rank)
    num_procs,    \* upcxx::rank_n()
    hashOf,       \* hashOf[k]: kmer.hash() of key k, for the keys in use
    used,         \* used[rank][idx]: the state markers of rank's segment
    data,         \* data[rank][idx]: the records of rank's segment
    handles,      \* handles[r]: the ranks i whose data[i], used[i] rank r holds
    published,    \* ranks that have issued the broadcast they are root of
    bi,           \* bi[r]: the constructor's loop variable i at rank r
    budget,       \* the number of insert / find calls the driver issues
    pc,           \* pc[r]: where rank r is
    op,           \* op[r]: the call rank r is in or has last returned from
    arg,          \* arg[r]: the kmer_pair / the key of that call
    probe,        \* probe[r]: the local variable probe
    slot,         \* slot[r]: the local variable slot
    val,          \* val[r]: find's out-parameter val_kmer
    ret,          \* ret[r]: what the last call returned
    \* ---- history (what has happened, not program state)
    claims,       \* claims[s]: request_slot calls that returned true for slot s
    writes,       \* writes[s]: completed write_slot calls on slot s
    inserted,     \* the kmer_pairs insert has been called with
    dup,          \* some key has been passed to insert twice
    known,        \* known[r]: the inserts that had returned true when rank
                  \* r's call was issued
    nops,         \* number of calls issued
    quiet,        \* quiet[r]: no insert has been in progress since rank r's
                  \* find was issued
    \* ---- the table of src/hash_map.hpp
    used_ptr,     \* used_ptr[slot]: the markers of the one local array
    data_ptr,     \* data_ptr[slot]: the records of the one local array
    hpc,          \* hpc[c]: where caller c is
    hcall,        \* hcall[c]: kmer, probe, slot, success of caller c's insert
    hclaims       \* hclaims[s]: request_slot calls that returned true for s

vars == <<my_size, num_procs, hashOf, budget, used, data, handles, published, bi, pc,
          op, arg, probe, slot, val, ret, claims, writes, inserted, dup,
          known, nops, quiet, used_ptr, data_ptr, hpc, hcall, hclaims>>

table == <<used, data>>
config == <<my_size, num_procs, budget>>
ctor_vars == <<handles, published, bi>>
history == <<claims, writes, inserted, dup, known, nops, quiet>>
hpp_vars == <<used_ptr, data_ptr, hpc, hcall, hclaims>>

Ranks == 0 .. num_procs - 1
Slots == 0 .. my_size - 1

Min(a, b) == IF a < b THEN a ELSE b

\* ------------------------------------------------ partition layout
\* segment_size = (my_size + num_procs - 1) / num_procs, in size_t.
segment_size == ((my_size + num_procs - 1) % Word) \div num_procs

segment_start_idx(r) == (r * segment_size) % Word

segment_end_idx(r) == Min((segment_start_idx(r) + segment_size) % Word, my_size)

\* The length handed to new_array: segment_end_idx - segment_start_idx,
\* an unsigned subtraction.
segment_length(r) == (segment_end_idx(r) + Word - segment_start_idx(r)) % Word

\* new_array succeeds for a length the shared heap can hold (it holds a
\* whole table); a length near the top of the word (a wrapped difference)
\* throws bad_alloc.
Allocatable(n) == n <= my_size

\* The owner taken cyclically while the offset stays blockwise.
rank_of_cyclic(s) == s % num_procs

\* int rank = slot / segment_size;  int idx = slot % segment_size;
rank_of(s) == s \div segment_size
idx_of(s) == s % segment_size

\* used[rank] + idx, data[rank] + idx inside the array that rank allocated.
InBounds(s) == rank_of(s) \in Ranks /\ idx_of(s) \in DOMAIN used[rank_of(s)]

\* uint64_t slot = (hash + probe++) % size();
SlotFor(h, p) == ((h + p) % Word) % my_size

\* The loop condition with <= for <.
probe_again_once_more(p) == p <= my_size

\* } while (!success && probe < size()); with success false.
probe_again(p) == p < my_size

\* ------------------------------------------------ remote access layer
\* slot_used with == 0 for != 0.
slot_used_inverted(s) == used[rank_of(s)][idx_of(s)] = 0

\* upcxx::rget(used[rank] + idx).wait() != 0
slot_used(s) == used[rank_of(s)][idx_of(s)] # 0

\* A get that never delivers what a put has stored.
ReadValues_stale(s) == {Unwritten}

\* upcxx::rget(data[rank] + idx).wait(): the values the get can deliver.
\* A record nobody has written is indeterminate.
ReadValues(s) ==
    LET c == data[rank_of(s)][idx_of(s)]
    IN  IF c = Unwritten THEN kmer_pair \cup {Unwritten} ELSE {c}

\* A put that returns without having stored the record.
write_slot_lost(s, kmer) == UNCHANGED <<data, writes>>

\* upcxx::rput(kmer, data[rank] + idx).wait()
write_slot(s, kmer) ==
    /\ data' = [data EXCEPT ![rank_of(s)][idx_of(s)] = kmer]
    /\ writes' = [writes EXCEPT ![s] = @ + 1]

\* A compare_exchange that compares and never stores the desired value.
compare_only(s, found) ==
    /\ found = used[rank_of(s)][idx_of(s)]
    /\ used' = used

\* ad->compare_exchange(used[rank] + idx, 0, 1, relaxed).wait(): one atomic
\* read-modify-write; `found` is the value it read.
compare_exchange(s, found) ==
    /\ found = used[rank_of(s)][idx_of(s)]
    /\ used' = IF found = 0
               THEN [used EXCEPT ![rank_of(s)][idx_of(s)] = 1]
               ELSE used

\* The records whose write_slot has completed, i.e. (insert returning right
\* after its write_slot) the arguments of the inserts that returned true.
Stored ==
    UNION {{data[r][i] : i \in DOMAIN data[r]} : r \in Ranks} \ {Unwritten}

\* kmer.hash() is a pure function of the key.  A run fixes the hash of a
\* key when a call first uses the key: h is the hash of key k, where k is a
\* key in use or, the keys being interchangeable until used, the smallest
\* key not in use.
Hashes(k, h) ==
    \/ /\ k \in DOMAIN hashOf
       /\ h = hashOf[k]
       /\ hashOf' = hashOf
    \/ /\ k = Len(hashOf) + 1
       /\ hashOf' = Append(hashOf, h)

\* Where a rank is inside insert and inside find.
InsertPcs == {"ins_request", "ins_write"}
FindPcs == {"find_used", "find_read"}

\* ------------------------------------------------ initial states
EmptySegment(r, v) == [i \in 0 .. segment_length(r) - 1 |-> v]

IdleProcs ==
    /\ op = [r \in Ranks |-> "none"]
    /\ arg = [r \in Ranks |-> Unwritten]
    /\ probe = [r \in Ranks |-> 0]
    /\ slot = [r \in Ranks |-> 0]
    /\ val = [r \in Ranks |-> Unwritten]
    /\ ret = [r \in Ranks |-> FALSE]
    /\ known = [r \in Ranks |-> {}]
    /\ quiet = [r \in Ranks |-> TRUE]

NoHistory ==
    /\ claims = [s \in Slots |-> 0]
    /\ writes = [s \in Slots |-> 0]
    /\ inserted = {}
    /\ dup = FALSE
    /\ nops = 0

Configs ==
    /\ my_size \in 1 .. MaxSize
    /\ num_procs \in 1 .. MaxProcs
    /\ hashOf = <<>>

\* The table after HashMap(size) has returned at every rank: every segment
\* allocated, its markers filled with 0, every handle exchanged.
Constructed ==
    /\ \A r \in Ranks : Allocatable(segment_length(r))
    /\ used = [r \in Ranks |-> EmptySegment(r, 0)]
    /\ data = [r \in Ranks |-> EmptySegment(r, Unwritten)]
    /\ handles = [r \in Ranks |-> Ranks]
    /\ published = Ranks
    /\ bi = [r \in Ranks |-> num_procs]
    /\ pc = [r \in Ranks |-> "idle"]
    /\ IdleProcs
    /\ NoHistory

\* No table of hash_map.hpp exists.
NoHppTable ==
    /\ used_ptr = <<>>
    /\ data_ptr = <<>>
    /\ hpc = <<>>
    /\ hcall = <<>>
    /\ hclaims = <<>>

Init ==
    /\ Configs
    /\ budget = MaxOps
    /\ Constructed
    /\ NoHppTable

\* ------------------------------------------------ construction
\* Before HashMap(size) has run anywhere: no array, no handle.
Unconstructed ==
    /\ used = [r \in Ranks |-> <<>>]
    /\ data = [r \in Ranks |-> <<>>]
    /\ handles = [r \in Ranks |-> {}]
    /\ published = {}
    /\ bi = [r \in Ranks |-> 0]
    /\ pc = [r \in Ranks |-> "ctor"]
    /\ IdleProcs
    /\ NoHistory

\* HashMap::HashMap up to the two new_array calls: rank r computes its
\* segment and allocates its arrays, whose contents are indeterminate
\* (new_array default-initialises, which leaves an int unset).  A length
\* the heap cannot hold makes new_array throw and the constructor never
\* returns.
CtorAlloc(r) ==
    /\ pc[r] = "ctor"
    /\ IF Allocatable(segment_length(r))
       THEN /\ \E g \in [0 .. segment_length(r) - 1 -> IndeterminateInts] :
                 used' = [used EXCEPT ![r] = g]
            /\ data' = [data EXCEPT ![r] = EmptySegment(r, Unwritten)]
            /\ handles' = [handles EXCEPT ![r] = {r}]
            /\ pc' = [pc EXCEPT ![r] = "bcast"]
       ELSE /\ pc' = [pc EXCEPT ![r] = "failed"]
            /\ UNCHANGED <<used, data, handles>>
    /\ bi' = [bi EXCEPT ![r] = 0]
    /\ UNCHANGED <<config, hashOf, hpp_vars, published, op, arg, probe, slot, val, ret, history>>

\* One pass of the broadcast loop (data[i] and used[i] travel together):
\* the root i hands its pointers to the runtime and goes on; every other
\* rank waits until the root has done so and stores them.  After the last
\* pass the loop is left.
CtorBroadcast(r) ==
    /\ pc[r] = "bcast"
    /\ LET i == bi[r]
       IN  /\ IF i = r
              THEN /\ published' = published \cup {r}
                   /\ UNCHANGED handles
              ELSE /\ i \in published
                   /\ handles' = [handles EXCEPT ![r] = @ \cup {i}]
                   /\ UNCHANGED published
           /\ bi' = [bi EXCEPT ![r] = i + 1]
           /\ pc' = [pc EXCEPT ![r] =
                        IF i + 1 < num_procs THEN "bcast" ELSE "fill"]
    /\ UNCHANGED <<config, hashOf, hpp_vars, table, op, arg, probe, slot, val, ret, history>>

\* std::fill_n(local_used, segment_end_idx - segment_start_idx, 0); the
\* constructor returns.
CtorFill(r) ==
    /\ pc[r] = "fill"
    /\ used' = [used EXCEPT ![r] = EmptySegment(r, 0)]
    /\ pc' = [pc EXCEPT ![r] = "idle"]
    /\ UNCHANGED <<config, hashOf, hpp_vars, data, ctor_vars, op, arg, probe, slot, val, ret,
                   history>>

\* ------------------------------------------------ insert
\* bool HashMap::insert(const kmer_pair& kmer): entry, probe = 0.
CallInsert(r, kmer, h) ==
    /\ pc[r] = "idle"
    /\ nops < budget
    /\ Hashes(kmer.kmer, h)
    /\ pc' = [pc EXCEPT ![r] = "ins_request"]
    /\ op' = [op EXCEPT ![r] = "insert"]
    /\ arg' = [arg EXCEPT ![r] = kmer]
    /\ probe' = [probe EXCEPT ![r] = 0]
    /\ slot' = [slot EXCEPT ![r] = 0]
    /\ ret' = [ret EXCEPT ![r] = FALSE]
    /\ inserted' = inserted \cup {kmer}
    /\ dup' = (dup \/ \E k \in inserted : k.kmer = kmer.kmer)
    /\ known' = [known EXCEPT ![r] = Stored]
    /\ quiet' = [q \in Ranks |-> q = r \/ (quiet[q] /\ pc[q] \notin FindPcs)]
    /\ nops' = nops + 1
    /\ UNCHANGED <<config, hpp_vars, table, ctor_vars, val, claims, writes>>

\* request_slot with the test of `found` inverted.
request_slot_inverted(s, success) ==
    \E found \in IndeterminateInts :
        /\ compare_exchange(s, found)
        /\ success = (found # 0)
        /\ claims' = [claims EXCEPT ![s] = IF success THEN @ + 1 ELSE @]

\* bool HashMap::request_slot(slot): true iff the compare_exchange found 0.
request_slot(s, success) ==
    \E found \in IndeterminateInts :
        /\ compare_exchange(s, found)
        /\ success = (found = 0)
        /\ claims' = [claims EXCEPT ![s] = IF success THEN @ + 1 ELSE @]

\* One pass of insert's do-loop up to the end of request_slot: compute the
\* slot, post-increment probe, request the slot; on failure test the loop
\* condition and either go round again or return false.
InsertRequest(r) ==
    /\ pc[r] = "ins_request"
    /\ LET s == SlotFor(hashOf[arg[r].kmer], probe[r])
           p == (probe[r] + 1) % Word
       IN  /\ rank_of(s) \in handles[r]
           /\ InBounds(s)
           /\ \E success \in BOOLEAN :
                /\ request_slot(s, success)
                /\ probe' = [probe EXCEPT ![r] = p]
                /\ slot' = [slot EXCEPT ![r] = s]
                /\ pc' = [pc EXCEPT ![r] =
                            IF success THEN "ins_write"
                            ELSE IF probe_again(p) THEN "ins_request"
                            ELSE "idle"]
    /\ UNCHANGED <<config, hashOf, hpp_vars, data, ctor_vars, op, arg, val, ret,
                   writes, inserted, dup, known, nops, quiet>>

\* write_slot(slot, kmer) after a successful request; the loop ends
\* (success) and insert returns true.
InsertWrite(r) ==
    /\ pc[r] = "ins_write"
    /\ write_slot(slot[r], arg[r])
    /\ pc' = [pc EXCEPT ![r] = "idle"]
    /\ ret' = [ret EXCEPT ![r] = TRUE]
    /\ UNCHANGED <<config, hashOf, hpp_vars, used, ctor_vars, op, arg, probe,
                   slot, val, claims, inserted, dup, known, nops, quiet>>

\* ------------------------------------------------ find
\* bool HashMap::find(const pkmer_t& key_kmer, kmer_pair& val_kmer): entry.
CallFind(r, key, h) ==
    /\ pc[r] = "idle"
    /\ nops < budget
    /\ Hashes(key, h)
    /\ pc' = [pc EXCEPT ![r] = "find_used"]
    /\ op' = [op EXCEPT ![r] = "find"]
    /\ arg' = [arg EXCEPT ![r] = [kmer |-> key, ext |-> 0]]
    /\ probe' = [probe EXCEPT ![r] = 0]
    /\ slot' = [slot EXCEPT ![r] = 0]
    /\ val' = [val EXCEPT ![r] = Unwritten]
    /\ ret' = [ret EXCEPT ![r] = FALSE]
    /\ known' = [known EXCEPT ![r] = Stored]
    /\ quiet' = [quiet EXCEPT ![r] = \A q \in Ranks : pc[q] \notin InsertPcs]
    /\ nops' = nops + 1
    /\ UNCHANGED <<config, hpp_vars, table, ctor_vars, claims, writes, inserted,
                   dup>>

\* find testing the slot with the compare_exchange of request_slot instead
\* of the rget of slot_used.
FindUsed_claiming(r) ==
    /\ pc[r] = "find_used"
    /\ LET s == SlotFor(hashOf[arg[r].kmer], probe[r])
           p == (probe[r] + 1) % Word
       IN  /\ rank_of(s) \in handles[r]
           /\ InBounds(s)
           /\ \E found \in IndeterminateInts :
                /\ compare_exchange(s, found)
                /\ pc' = [pc EXCEPT ![r] =
                            IF found # 0 THEN "find_read"
                            ELSE IF probe_again(p) THEN "find_used"
                            ELSE "idle"]
           /\ probe' = [probe EXCEPT ![r] = p]
           /\ slot' = [slot EXCEPT ![r] = s]
    /\ UNCHANGED <<config, hashOf, hpp_vars, data, ctor_vars, op, arg, val, ret,
                   history>>

\* One pass of find's do-loop up to the end of slot_used: compute the slot,
\* post-increment probe, rget the marker; an unused slot goes to the loop
\* condition.
FindUsed(r) ==
    /\ pc[r] = "find_used"
    /\ LET s == SlotFor(hashOf[arg[r].kmer], probe[r])
           p == (probe[r] + 1) % Word
       IN  /\ rank_of(s) \in handles[r]
           /\ InBounds(s)
           /\ probe' = [probe EXCEPT ![r] = p]
           /\ slot' = [slot EXCEPT ![r] = s]
           /\ pc' = [pc EXCEPT ![r] =
                        IF slot_used(s) THEN "find_read"
                        ELSE IF probe_again(p) THEN "find_used" ELSE "idle"]
    /\ UNCHANGED <<config, hashOf, hpp_vars, table, ctor_vars, op, arg, val, ret, history>>

\* val_kmer = read_slot(slot); a key match ends the loop with success,
\* otherwise the loop condition decides.
FindRead(r) ==
    /\ pc[r] = "find_read"
    /\ \E v \in ReadValues(slot[r]) :
        /\ val' = [val EXCEPT ![r] = v]
        /\ ret' = [ret EXCEPT ![r] = (v.kmer = arg[r].kmer)]
        /\ pc' = [pc EXCEPT ![r] =
                    IF v.kmer = arg[r].kmer THEN "idle"
                    ELSE IF probe_again(probe[r]) THEN "find_used" ELSE "idle"]
    /\ UNCHANGED <<config, hashOf, hpp_vars, table, ctor_vars, op, arg, probe, slot, history>>

\* ------------------------------------------------ specification
Next ==
    \/ \E r \in Ranks, kmer \in kmer_pair, h \in HashValues :
          CallInsert(r, kmer, h)
    \/ \E r \in Ranks : InsertRequest(r)
    \/ \E r \in Ranks : InsertWrite(r)
    \/ \E r \in Ranks, key \in Keys, h \in HashValues : CallFind(r, key, h)
    \/ \E r \in Ranks : FindUsed(r)
    \/ \E r \in Ranks : FindRead(r)

Spec == Init /\ [][Next]_vars

\* The whole life of the table: every rank runs the constructor and, as
\* soon as its own constructor has returned, issues calls.
InitCtor ==
    /\ Configs
    /\ budget = MaxOps - 1
    /\ Unconstructed
    /\ NoHppTable

NextCtor ==
    \/ \E r \in Ranks : CtorAlloc(r)
    \/ \E r \in Ranks : CtorBroadcast(r)
    \/ \E r \in Ranks : CtorFill(r)
    \/ Next

SpecCtor == InitCtor /\ [][NextCtor]_vars

\* ------------------------------------------------ src/hash_map.hpp
\* The table of hash_map.hpp is one array pair per HashMap object
\* (used_ptr, data_ptr) that is never handed to another rank; the callers
\* are the concurrent callers of that one object.
Callers == 0 .. NumCallers - 1

\* local_size = size / upcxx::rank_n();
local_size == my_size \div num_procs

NoCall == [kmer |-> Unwritten, probe |-> 0, slot |-> 0, success |-> FALSE]

\* HashMap::HashMap of hash_map.hpp: used_ptr and data_ptr are allocated
\* with new_array and not written (the loop fills the vectors `used` and
\* `data`, which no operation reads).
InitHpp ==
    /\ Configs
    /\ budget = MaxOps
    /\ Unconstructed
    /\ used_ptr \in [0 .. local_size - 1 -> IndeterminateInts]
    /\ data_ptr = [i \in 0 .. local_size - 1 |-> Unwritten]
    /\ hpc = [c \in Callers |-> "idle"]
    /\ hcall = [c \in Callers |-> NoCall]
    /\ hclaims = [i \in 0 .. local_size - 1 |-> 0]

\* insert of hash_map.hpp: entry.  With local_size = 0 the first
\* `% local_size` divides by zero.
HppCallInsert(c, kmer, h) ==
    /\ hpc[c] = "idle"
    /\ nops < budget
    /\ Hashes(kmer.kmer, h)
    /\ hpc' = [hpc EXCEPT ![c] = IF local_size = 0 THEN "trap" ELSE "request_get"]
    /\ hcall' = [hcall EXCEPT ![c] = [NoCall EXCEPT !.kmer = kmer]]
    /\ nops' = nops + 1
    /\ UNCHANGED <<config, table, ctor_vars, pc, op, arg, probe, slot, val,
                   ret, claims, writes, inserted, dup, known, quiet,
                   used_ptr, data_ptr, hclaims>>

\* One pass of the do-loop up to the atomic_rget of request_slot: a marker
\* that is not 0 makes request_slot return false, and the loop condition
\* decides.
HppRequestGet(c) ==
    /\ hpc[c] = "request_get"
    /\ LET s == ((hashOf[hcall[c].kmer.kmer] + hcall[c].probe) % Word) % local_size
           p == (hcall[c].probe + 1) % Word
       IN  /\ hcall' = [hcall EXCEPT ![c].probe = p, ![c].slot = s]
           /\ hpc' = [hpc EXCEPT ![c] =
                        IF used_ptr[s] = 0 THEN "request_put"
                        ELSE IF p < local_size THEN "request_get" ELSE "idle"]
    /\ UNCHANGED <<config, hashOf, table, ctor_vars, pc, op, arg, probe, slot, val,
                   ret, history, used_ptr, data_ptr, hclaims>>

\* The else branch of request_slot: atomic_rput(1, used_ptr + slot) and
\* return true.
HppRequestPut(c) ==
    /\ hpc[c] = "request_put"
    /\ used_ptr' = [used_ptr EXCEPT ![hcall[c].slot] = 1]
    /\ hclaims' = [hclaims EXCEPT ![hcall[c].slot] = @ + 1]
    /\ hcall' = [hcall EXCEPT ![c].success = TRUE]
    /\ hpc' = [hpc EXCEPT ![c] = "write"]
    /\ UNCHANGED <<config, hashOf, table, ctor_vars, pc, op, arg, probe, slot, val,
                   ret, history, data_ptr>>

\* write_slot(slot, kmer) of hash_map.hpp; insert returns true.
HppWrite(c) ==
    /\ hpc[c] = "write"
    /\ data_ptr' = [data_ptr EXCEPT ![hcall[c].slot] = hcall[c].kmer]
    /\ hpc' = [hpc EXCEPT ![c] = "idle"]
    /\ UNCHANGED <<config, hashOf, table, ctor_vars, pc, op, arg, probe, slot, val,
                   ret, history, used_ptr, hcall, hclaims>>

NextHpp ==
    \/ \E c \in Callers, kmer \in kmer_pair, h \in HashValues :
          HppCallInsert(c, kmer, h)
    \/ \E c \in Callers : HppRequestGet(c)
    \/ \E c \in Callers : HppRequestPut(c)
    \/ \E c \in Callers : HppWrite(c)

SpecHpp == InitHpp /\ [][NextHpp]_vars

\* ------------------------------------------------ layout runs
\* Fewer calls on a freshly constructed table, over one more capacity and
\* one more rank count than the runs of Spec.
InitLayout ==
    /\ my_size \in 1 .. MaxSize + 1
    /\ num_procs \in 1 .. MaxProcs + 1
    /\ hashOf = <<>>
    /\ budget = MaxOps - 1
    /\ Constructed
    /\ NoHppTable

SpecLayout == InitLayout /\ [][Next]_vars

\* Construction over one more capacity and one more rank count than the
\* runs of SpecCtor, followed by a single call.
InitCtorLayout ==
    /\ my_size \in 1 .. MaxSize + 1
    /\ num_procs \in 1 .. MaxProcs + 1
    /\ hashOf = <<>>
    /\ budget = MaxOps - 2
    /\ Unconstructed
    /\ NoHppTable

SpecCtorLayout == InitCtorLayout /\ [][NextCtor]_vars

\* ------------------------------------------------ fair runs
\* Every rank is a running process: a rank inside insert or find takes its
\* next step (every awaited remote operation completes).  Calls are issued
\* at the driver's discretion.
Procs == 0 .. MaxProcs - 1

Step(r) ==
    /\ r \in Ranks
    /\ InsertRequest(r) \/ InsertWrite(r) \/ FindUsed(r) \/ FindRead(r)

SpecLive == Init /\ [][Next]_vars /\ \A r \in Procs : WF_vars(Step(r))

\* ------------------------------------------------ scenario A
\* One rank, capacity 8, keys whose hashes are 3 or 5.
ScenarioHashes == {3, 5}

InitScenarioA ==
    /\ my_size = 8
    /\ num_procs = 1
    /\ hashOf = <<>>
    /\ budget = MaxOps + 1
    /\ Constructed
    /\ NoHppTable

NextScenarioA ==
    \/ \E r \in Ranks, kmer \in kmer_pair, h \in ScenarioHashes :
          CallInsert(r, kmer, h)
    \/ \E r \in Ranks : InsertRequest(r)
    \/ \E r \in Ranks : InsertWrite(r)
    \/ \E r \in Ranks, key \in Keys, h \in ScenarioHashes : CallFind(r, key, h)
    \/ \E r \in Ranks : FindUsed(r)
    \/ \E r \in Ranks : FindRead(r)

SpecScenarioA == InitScenarioA /\ [][NextScenarioA]_vars

\* ------------------------------------------------ properties
RECURSIVE SumUpTo(_, _)
SumUpTo(f, n) == IF n < 0 THEN 0 ELSE f[n] + SumUpTo(f, n - 1)

\* The number of inserts that have returned true.
NumSucceeded == SumUpTo(writes, my_size - 1)

Returned(r, what) == pc[r] = "idle" /\ op[r] = what

C2_HppAtMostOneClaimPerSlot == \A s \in DOMAIN hclaims : hclaims[s] <= 1

\* C3: slot_used(s) is true only once the record of s has been written.
C3_UsedImpliesWritten == \A s \in Slots : slot_used(s) => writes[s] >= 1

\* C4: whatever find has read with read_slot, and so whatever it returns
\* with true, is the argument of a prior insert call.
C4_FindReadsInsertedRecords ==
    \A r \in Ranks :
        /\ (op[r] = "find" /\ val[r] # Unwritten) => val[r] \in inserted
        /\ (Returned(r, "find") /\ ret[r]) => val[r] \in inserted

\* C5: at most capacity inserts, of pairwise distinct keys, into the empty
\* table all return true, and a find issued after the insert of its key
\* has returned true returns true with that record.
C5_DistinctInsertsSucceedAndAreFound ==
    (~dup /\ Cardinality(inserted) <= my_size) =>
        \A r \in Ranks :
            /\ Returned(r, "insert") => ret[r]
            /\ (Returned(r, "find") /\ \E k \in known[r] : k.kmer = arg[r].kmer)
                  => (ret[r] /\ val[r] \in known[r] /\ val[r].kmer = arg[r].kmer)

C8_MarkerNeverReset ==
    [][\A s \in Slots : claims[s] > 0 => (slot_used(s))']_vars

\* C9: the constructor returns at a rank only after every rank has
\* allocated, zero-filled and published its segment, so that no insert or
\* find touches a segment whose markers are not all initialised.
ConstructorReturned(r) == pc[r] \notin {"ctor", "bcast", "fill", "failed"}

C9_ConstructionIsABarrier ==
    \A r \in Ranks : ConstructorReturned(r) =>
        \A q \in Ranks : ConstructorReturned(q)

\* C10: every slot s of [0, my_size) maps to an owner in [0, num_procs) and
\* an offset inside the array that owner allocated, the owner being the rank
\* whose range [r * segment_size, min((r + 1) * segment_size, my_size))
\* holds s; distinct slots map to distinct pairs; the record of an insert
\* that returned true lies in the owner's array at that offset; and with
\* my_size = 4, num_procs = 2 the insert by rank 1 of a key hashing to slot 1
\* (the first call on the table) returns true with the record at offset 1
\* of rank 0's array.
Owns(r, s) == r * segment_size <= s /\ s < Min((r + 1) * segment_size, my_size)

NumOwned(r) == Cardinality({s \in Slots : Owns(r, s)})

C11_SegmentLengthIsOwnedCount ==
    \A r \in Ranks : pc[r] # "ctor" =>
        /\ segment_length(r) = NumOwned(r)
        /\ (r * segment_size >= my_size => segment_length(r) = 0)

Candidates(h) == {SlotFor(h, p) : p \in 0 .. my_size - 1}

C13_ProbeSequence ==
    \A r \in Ranks : (op[r] \in {"insert", "find"} /\ probe[r] > 0) =>
        LET h == hashOf[arg[r].kmer]
        IN  /\ slot[r] = ((h % my_size) + probe[r] - 1) % my_size
            /\ probe[r] = my_size => Candidates(h) = Slots

\* C14: with one rank, an insert stores its record in the first slot, in
\* the order h, h + 1, ... (mod capacity) from h = hash mod capacity, that
\* was empty when the insert ran, and changes no other slot.
WasEmpty(r, s) == ~slot_used(s) \/ (ret[r] /\ s = slot[r])

InOrder(r, i) == ((hashOf[arg[r].kmer] % my_size) + i) % my_size

C14_FirstEmptySlot ==
    \A r \in Ranks : (num_procs = 1 /\ Returned(r, "insert")) =>
        /\ Stored \subseteq known[r] \cup {arg[r]}
        /\ (\E s \in Slots : WasEmpty(r, s)) =>
              /\ ret[r]
              /\ data[rank_of(slot[r])][idx_of(slot[r])] = arg[r]
              /\ \E i \in 0 .. my_size - 1 :
                    /\ InOrder(r, i) = slot[r]
                    /\ \A j \in 0 .. i - 1 : ~WasEmpty(r, InOrder(r, j))

\* Scenario A of C14: capacity 8, one rank, three keys hashing to 3, 3, 5
\* inserted in that order land in slots 3, 4 and 5, and a find of the
\* second key then probes slot 3 and returns at slot 4.
ScenarioA_Inserted ==
    /\ hashOf = <<3, 3, 5>>
    /\ ~dup /\ Cardinality(inserted) = 3
    /\ NumSucceeded = 3

C14_ScenarioA ==
    /\ (ScenarioA_Inserted /\ nops = 3) =>
          /\ data[0][3].kmer = 1 /\ data[0][4].kmer = 2 /\ data[0][5].kmer = 3
          /\ \A i \in DOMAIN data[0] : i \notin {3, 4, 5} => data[0][i] = Unwritten
    /\ (ScenarioA_Inserted /\ nops = 4 /\ Returned(0, "find")
           /\ arg[0].kmer = 2) =>
          (ret[0] /\ probe[0] = 2 /\ slot[0] = 4 /\ val[0] = data[0][4])

C14_ScenarioA_Reached ==
    /\ ScenarioA_Inserted /\ nops = 4 /\ Returned(0, "find")
    /\ arg[0].kmer = 2
    /\ ret[0] /\ slot[0] = 4

C16_ConcurrentInserts ==
    /\ \A q, r \in Ranks :
          (/\ q # r
           /\ Returned(q, "insert") /\ ret[q]
           /\ Returned(r, "insert") /\ ret[r]) => slot[q] # slot[r]
    /\ \A r \in Ranks : (Returned(r, "insert") /\ ~ret[r]) =>
          \A s \in Slots : claims[s] >= 1

\* C17: an insert of a record whose key is already in a table that is not
\* full returns true, having claimed a slot that was empty and written its
\* record there; the records written before stay where they are, so the
\* table holds two entries of the key.
HoldsKey(s, key) == data[rank_of(s)][idx_of(s)].kmer = key

C17_DuplicateKeyTakesNewSlot ==
    \A r \in Ranks :
        (/\ Returned(r, "insert")
         /\ \E k \in known[r] : k.kmer = arg[r].kmer
         /\ \E s \in Slots : ~slot_used(s)) =>
            /\ ret[r]
            /\ writes[slot[r]] = 1
            /\ data[rank_of(slot[r])][idx_of(slot[r])] = arg[r]
            /\ known[r] \subseteq Stored
            /\ Cardinality({s \in Slots : HoldsKey(s, arg[r].kmer)}) >= 2

\* C18: under fair scheduling of the ranks, a slot claimed by request_slot
\* is eventually written by write_slot with the claimant's record, which
\* then returns true; every insert and find call returns; and no call makes
\* more than capacity probes.
Claimant(r) == r \in Ranks /\ pc[r] = "ins_write"

Written(r) ==
    /\ r \in Ranks
    /\ Returned(r, "insert") /\ ret[r]
    /\ writes[slot[r]] >= 1
    /\ data[rank_of(slot[r])][idx_of(slot[r])] = arg[r]

C18_ClaimedSlotsGetWritten ==
    /\ \A r \in Procs : Claimant(r) ~> Written(r)
    /\ \A r \in Procs :
          (r \in Ranks /\ pc[r] # "idle") ~> (r \in Ranks /\ pc[r] = "idle")
    /\ \A s \in 0 .. MaxSize - 1 :
          (s \in Slots /\ claims[s] > 0) ~> (s \in Slots /\ writes[s] > 0)
    /\ [](\A r \in Ranks : probe[r] <= my_size)

\* An insert has claimed a slot on its last probe, written its record there
\* and returned true.
C18_Witness ==
    \E r \in Ranks :
        /\ Written(r)
        /\ claims[slot[r]] = 1
        /\ probe[r] = my_size
        /\ my_size > 1

\* C19: no step of a find call, from its entry to its return and whatever
\* the other ranks do, changes a marker or a record of the table; of the
\* ranks' out-parameters it writes only its own.
FindStep(r) ==
    \/ pc[r] = "idle" /\ pc'[r] \in FindPcs
    \/ pc[r] \in FindPcs /\ <<pc[r], probe[r]>>' # <<pc[r], probe[r]>>

C19_FindIsReadOnly ==
    [][\A r \in Ranks : FindStep(r) =>
          /\ UNCHANGED <<used, data, claims, writes>>
          /\ \A q \in Ranks \ {r} : val'[q] = val[q]]_vars

\* A find has gone through a table with used and unused slots and returned
\* false after capacity probes, the slots being as the inserts left them.
C19_Witness ==
    \E r \in Ranks :
        /\ Returned(r, "find") /\ ~ret[r] /\ probe[r] = my_size
        /\ \E s, t \in Slots : slot_used(s) /\ ~slot_used(t)
        /\ \A s \in Slots : slot_used(s) <=> writes[s] = 1
        /\ NumSucceeded = Cardinality(Stored)

====
